---- MODULE Spec2Model ----
(***************************************************************************)
(* Invariant-enforcement core of the assessment backend:                   *)
(*   - Questionnaire activation (backend/models/Questionnaire.js and       *)
(*     backend/routes/questionnaires.js),                                  *)
(*   - ScoringRule range registry (backend/models/ScoringRule.js and the   *)
(*     scoring-rules router),                                              *)
(*   - Question order numbers (backend/models/Question.js and              *)
(*     backend/routes/questions.js).                                       *)
(* The document store gives per-document atomicity only, so every route    *)
(* handler is a sequence of store accesses, one action per access.         *)
(***************************************************************************)
EXTENDS Integers, FiniteSets, Sequences, TLC

\* ------------------------------------------------------------------ bounds
MaxQuestionnaires == 3
NumHandlers == 2
MaxRules == 2            \* scoring rules persisted at once
MaxBulk == 2             \* rules in one POST /bulk request
MaxQuestions == 2        \* questions ever created
MaxOrder == 2            \* largest order number a request carries or derives
MaxReorder == 2          \* items in the questionOrders list of one POST /reorder
MaxScore == 2            \* largest score and largest possible score of a result

QIds == 1..MaxQuestionnaires
Handlers == 1..NumHandlers

VARIABLES
    questionnaires, \* the Questionnaire collection: _id -> [isActive]
    pc,             \* per request handler: where it is in its route
    target,         \* per handler: req.params.id / the created _id (0: none)
    docActive,      \* per handler: isActive of the document it loaded
    alone,          \* per handler: no other handler touched the store since it began
    startActive,    \* per handler: how many questionnaires were active when it began
    result,         \* per handler: outcome of the route
    scoringRules,   \* the ScoringRule collection (documents, unique by index key)
    bandResult,     \* the last scoring-rule request and its outcome
    bulkCount,      \* POST /bulk in progress: index of the rule at hand, plus 1 (0: none)
    questions,      \* the Question collection: _id -> [questionnaireId, orderNumber]
    nextQuestionId, \* the next fresh Question _id
    questionPc,     \* per handler: where it is in its question route
    questionReq,    \* per handler: questionnaireId and orderNumber at hand
    questionLog,    \* one request at a time: the last question request and its response
    savePc,         \* per handler: where it is in scoringRule.save()
    saveDoc         \* per handler: the ScoringRule document it is saving

qnVars == <<questionnaires, pc, target, docActive, alone, startActive, result>>
bandVars == <<scoringRules, bandResult, bulkCount>>
questionVars == <<questions, nextQuestionId, questionPc, questionReq, questionLog>>
saveVars == <<savePc, saveDoc>>
vars == <<questionnaires, pc, target, docActive, alone, startActive, result,
          scoringRules, bandResult, bulkCount,
          questions, nextQuestionId, questionPc, questionReq, questionLog,
          savePc, saveDoc>>

\* ------------------------------------------------------- Questionnaire store
ActiveIds(store) == {q \in DOMAIN store : store[q].isActive}

\* Faulty variants of updateMany: one that matches no document, and one that
\* activates the excepted document instead of deactivating the others.
UpdateManyMatchesNothing(store, id) == store

UpdateManyActivatesTarget(store, id) ==
    IF id \in DOMAIN store THEN [store EXCEPT ![id] = [isActive |-> TRUE]] ELSE store

\* Questionnaire.updateMany({ _id: { $ne: id } }, { isActive: false })
UpdateManyOthersInactive(store, id) ==
    [q \in DOMAIN store |-> IF q # id THEN [isActive |-> FALSE] ELSE store[q]]

\* document.save() of a loaded document whose isActive was assigned `value`:
\* only a modified path is written, an unmodified document is not sent at all.
SaveIsActive(store, id, loaded, value) ==
    IF loaded # value
    THEN [store EXCEPT ![id] = [isActive |-> value]]
    ELSE store

\* new Questionnaire(body).save(): the insert of a fresh _id
InsertQuestionnaire(store, id, active) ==
    [q \in DOMAIN store \cup {id} |->
        IF q = id THEN [isActive |-> active] ELSE store[q]]

\* isActive of `new Questionnaire(req.body)`: schema default true
BodyIsActive == {"true", "false", "omitted"}

\* a schema without the default: only an explicit true is stored as active
CreatedIsActiveIfGiven(body) == body = "true"

CreatedIsActive(body) == body # "false"

\* ----------------------------------------------------------- handler frames
\* A store access by handler h is seen by every other handler that is inside
\* a route (or has just resolved and not yet responded).
Touch(h) == [k \in Handlers |-> IF k # h /\ pc[k] # "idle" THEN FALSE ELSE alone[k]]

Begin(h, id) ==
    /\ pc[h] = "idle"
    /\ UNCHANGED <<bandVars, questionVars, saveVars>>
    /\ target' = [target EXCEPT ![h] = id]
    /\ alone' = [Touch(h) EXCEPT ![h] = TRUE]
    /\ startActive' = [startActive EXCEPT ![h] = Cardinality(ActiveIds(questionnaires))]

Step(h) ==
    /\ alone' = Touch(h)
    /\ UNCHANGED <<bandVars, questionVars, saveVars>>
    /\ UNCHANGED <<target, startActive>>

\* ------------------------------------------- PATCH /:id/activate (3 accesses)
\* an activate that deactivates the others before it looks for its document
ActivateFindDeactivatesFirst(h, id) ==
    /\ Begin(h, id)
    /\ questionnaires' = UpdateManyOthersInactive(questionnaires, id)
    /\ IF id \in DOMAIN questionnaires
       THEN /\ pc' = [pc EXCEPT ![h] = "act_loaded"]
            /\ docActive' = [docActive EXCEPT ![h] = questionnaires[id].isActive]
            /\ UNCHANGED result
       ELSE /\ pc' = [pc EXCEPT ![h] = "done"]
            /\ result' = [result EXCEPT ![h] = "NotFound"]
            /\ UNCHANGED docActive

ActivateFind(h, id) ==
    /\ Begin(h, id)
    /\ IF id \in DOMAIN questionnaires
       THEN /\ pc' = [pc EXCEPT ![h] = "act_loaded"]
            /\ docActive' = [docActive EXCEPT ![h] = questionnaires[id].isActive]
            /\ UNCHANGED result
       ELSE /\ pc' = [pc EXCEPT ![h] = "done"]
            /\ result' = [result EXCEPT ![h] = "NotFound"]
            /\ UNCHANGED docActive
    /\ UNCHANGED questionnaires

ActivateDeactivateOthers(h) ==
    /\ pc[h] = "act_loaded"
    /\ Step(h)
    /\ questionnaires' = UpdateManyOthersInactive(questionnaires, target[h])
    /\ pc' = [pc EXCEPT ![h] = "act_deactivated"]
    /\ UNCHANGED <<docActive, result>>

ActivateSave(h) ==
    /\ pc[h] = "act_deactivated"
    /\ Step(h)
    /\ questionnaires' = SaveIsActive(questionnaires, target[h], docActive[h], TRUE)
    /\ pc' = [pc EXCEPT ![h] = "done"]
    /\ result' = [result EXCEPT ![h] = "activated"]
    /\ UNCHANGED docActive

\* ----------------------------------------- PATCH /:id/deactivate (2 accesses)
DeactivateFind(h, id) ==
    /\ Begin(h, id)
    /\ IF id \in DOMAIN questionnaires
       THEN /\ pc' = [pc EXCEPT ![h] = "deact_loaded"]
            /\ docActive' = [docActive EXCEPT ![h] = questionnaires[id].isActive]
            /\ UNCHANGED result
       ELSE /\ pc' = [pc EXCEPT ![h] = "done"]
            /\ result' = [result EXCEPT ![h] = "NotFound"]
            /\ UNCHANGED docActive
    /\ UNCHANGED questionnaires

\* a deactivate that writes isActive: false to every document
DeactivateSaveAll(h) ==
    /\ pc[h] = "deact_loaded"
    /\ Step(h)
    /\ questionnaires' = [id \in DOMAIN questionnaires |-> [isActive |-> FALSE]]
    /\ pc' = [pc EXCEPT ![h] = "done"]
    /\ result' = [result EXCEPT ![h] = "deactivated"]
    /\ UNCHANGED docActive

DeactivateSave(h) ==
    /\ pc[h] = "deact_loaded"
    /\ Step(h)
    /\ questionnaires' = SaveIsActive(questionnaires, target[h], docActive[h], FALSE)
    /\ pc' = [pc EXCEPT ![h] = "done"]
    /\ result' = [result EXCEPT ![h] = "deactivated"]
    /\ UNCHANGED docActive

\* ------------------------------------------------------ POST / (2 accesses)
NewQuestionnaireId == Cardinality(DOMAIN questionnaires) + 1

CreateSave(h, body) ==
    /\ NewQuestionnaireId \in QIds
    /\ Begin(h, NewQuestionnaireId)
    /\ questionnaires' =
          InsertQuestionnaire(questionnaires, NewQuestionnaireId, CreatedIsActive(body))
    /\ docActive' = [docActive EXCEPT ![h] = CreatedIsActive(body)]
    /\ IF CreatedIsActive(body)
       THEN /\ pc' = [pc EXCEPT ![h] = "create_saved"]
            /\ UNCHANGED result
       ELSE /\ pc' = [pc EXCEPT ![h] = "done"]
            /\ result' = [result EXCEPT ![h] = "created"]

CreateDeactivateOthers(h) ==
    /\ pc[h] = "create_saved"
    /\ Step(h)
    /\ questionnaires' = UpdateManyOthersInactive(questionnaires, target[h])
    /\ pc' = [pc EXCEPT ![h] = "done"]
    /\ result' = [result EXCEPT ![h] = "created"]
    /\ UNCHANGED docActive

\* ---------------------------------------------------- PUT /:id (2 accesses)
\* findByIdAndUpdate(id, body, { new: true }): one atomic document update
UpdatedIsActive(old, body) ==
    IF body = "omitted" THEN old ELSE (body = "true")

UpdateFindAndUpdate(h, id, body) ==
    /\ Begin(h, id)
    /\ IF id \in DOMAIN questionnaires
       THEN LET now == UpdatedIsActive(questionnaires[id].isActive, body) IN
            /\ questionnaires' = [questionnaires EXCEPT ![id] = [isActive |-> now]]
            /\ docActive' = [docActive EXCEPT ![h] = now]
            /\ IF now
               THEN /\ pc' = [pc EXCEPT ![h] = "upd_written"]
                    /\ UNCHANGED result
               ELSE /\ pc' = [pc EXCEPT ![h] = "done"]
                    /\ result' = [result EXCEPT ![h] = "updated"]
       ELSE /\ pc' = [pc EXCEPT ![h] = "done"]
            /\ result' = [result EXCEPT ![h] = "NotFound"]
            /\ UNCHANGED <<questionnaires, docActive>>

UpdateDeactivateOthers(h) ==
    /\ pc[h] = "upd_written"
    /\ Step(h)
    /\ questionnaires' = UpdateManyOthersInactive(questionnaires, target[h])
    /\ pc' = [pc EXCEPT ![h] = "done"]
    /\ result' = [result EXCEPT ![h] = "updated"]
    /\ UNCHANGED docActive

\* ------------------------------------------------ end of a request / a crash
Respond(h) ==
    /\ pc[h] = "done"
    /\ pc' = [pc EXCEPT ![h] = "idle"]
    /\ target' = [target EXCEPT ![h] = 0]
    /\ docActive' = [docActive EXCEPT ![h] = FALSE]
    /\ alone' = [alone EXCEPT ![h] = TRUE]
    /\ startActive' = [startActive EXCEPT ![h] = 0]
    /\ result' = [result EXCEPT ![h] = "none"]
    /\ UNCHANGED questionnaires
    /\ UNCHANGED <<bandVars, questionVars, saveVars>>

\* The process serving the request stops between two store accesses.
Crash(h) ==
    /\ pc[h] \notin {"idle", "done"}
    /\ pc' = [pc EXCEPT ![h] = "idle"]
    /\ target' = [target EXCEPT ![h] = 0]
    /\ docActive' = [docActive EXCEPT ![h] = FALSE]
    /\ alone' = [alone EXCEPT ![h] = TRUE]
    /\ startActive' = [startActive EXCEPT ![h] = 0]
    /\ result' = [result EXCEPT ![h] = "none"]
    /\ UNCHANGED questionnaires
    /\ UNCHANGED <<bandVars, questionVars, saveVars>>

\* ===================================================== ScoringRule registry
MinPercentage == 0       \* schema min of minPercentage / maxPercentage
MaxPercentage == 100     \* schema max of minPercentage / maxPercentage

\* Percentages of persisted rules: both ends of [0,100] and two inner points,
\* so that two ranges can be apart, touch in one bound, overlap in part, be
\* nested or be equal.
Percentages == {0, 33, 66, 100}

\* Ranges <<minPercentage, maxPercentage>> a request may carry: every proper
\* range over Percentages and, to be rejected, an empty one (min = max), a
\* reversed one, and one beyond each end of [0,100].
ProperRanges == {r \in Percentages \X Percentages : r[1] < r[2]}
ImproperRanges ==
    {<<33, 33>>, <<66, 33>>, <<MinPercentage - 1, 33>>, <<66, MaxPercentage + 1>>}

\* questionnaireId of a rule or a question is any ObjectId: nothing checks it
\* against the Questionnaire collection.
\* Two questionnaires and one category: with the overall scope (categoryId
\* null, or no categoryId at all) that is every way two rules can relate:
\* same scope, category against overall, another questionnaire.
QuestionnaireRefs == {1, 2}
CategoryIds == {1}
CategoryNull == 0        \* categoryId: null
CategoryAbsent == 0 - 1  \* no categoryId field in the document / the body

RuleBody(q, c, r) ==
    [questionnaireId |-> q, categoryId |-> c,
     minPercentage |-> r[1], maxPercentage |-> r[2]]

\* Request bodies: a proper range in every scope; an improper range is turned
\* down before the scope is looked at, so one category scope and one overall
\* scope carry them.
RuleBodies ==
    {RuleBody(q, c, r) : q \in QuestionnaireRefs,
                         c \in CategoryIds \cup {CategoryNull, CategoryAbsent},
                         r \in ProperRanges}
        \cup {RuleBody(1, c, r) : c \in {1, CategoryNull}, r \in ImproperRanges}

NoRule == [questionnaireId |-> 0, categoryId |-> CategoryAbsent,
           minPercentage |-> 0, maxPercentage |-> 0]

\* express-validator isFloat({ min: 0, max: 100 }) and the schema's min / max
InPercentageRange(p) == MinPercentage <= p /\ p <= MaxPercentage

FieldsInRange(body) ==
    InPercentageRange(body.minPercentage) /\ InPercentageRange(body.maxPercentage)

\* `minPercentage >= maxPercentage` with > in place of >=
RangeIsEmptyStrict(min, max) == min > max

\* the guard `minPercentage >= maxPercentage` of the routes and of both hooks
RangeIsEmpty(min, max) == min >= max

\* categoryMatch that ignores the category
CategoryMatchAny(categoryId, rule) == TRUE

\* categoryMatch: (categoryId != null) ? { categoryId }
\*   : { $or: [{ categoryId: null }, { categoryId: { $exists: false } }] }
CategoryMatch(categoryId, rule) ==
    IF categoryId \notin {CategoryNull, CategoryAbsent}
    THEN rule.categoryId = categoryId
    ELSE rule.categoryId \in {CategoryNull, CategoryAbsent}

\* overlapConditions with strict comparisons (touching bounds let through)
OverlapConditionsStrict(min, max, rule) ==
    \/ rule.minPercentage < min /\ rule.maxPercentage > min
    \/ rule.minPercentage < max /\ rule.maxPercentage > max
    \/ rule.minPercentage >= min /\ rule.maxPercentage <= max

\* overlapConditions: the $or of the three range conditions
OverlapConditions(min, max, rule) ==
    \/ rule.minPercentage <= min /\ rule.maxPercentage >= min
    \/ rule.minPercentage <= max /\ rule.maxPercentage >= max
    \/ rule.minPercentage >= min /\ rule.maxPercentage <= max

\* findOne(query): the documents the overlap query matches; `self` is the
\* document excluded by _id: { $ne } (NoRule for a new document)
OverlapQuery(rules, self, questionnaireId, categoryId, min, max) ==
    {rule \in rules \ {self} :
        /\ rule.questionnaireId = questionnaireId
        /\ CategoryMatch(categoryId, rule)
        /\ OverlapConditions(min, max, rule)}

\* an index that keeps a missing categoryId apart from a null one
IndexKeyAbsentApart(rule) ==
    <<rule.questionnaireId, rule.categoryId, rule.minPercentage, rule.maxPercentage>>

\* key of the compound unique index; a missing field is indexed as null
IndexKey(rule) ==
    <<rule.questionnaireId,
      IF rule.categoryId = CategoryAbsent THEN CategoryNull ELSE rule.categoryId,
      rule.minPercentage, rule.maxPercentage>>

IndexRejects(rules, self, doc) ==
    \E rule \in rules \ {self} : IndexKey(rule) = IndexKey(doc)

\* document.save() of a new ScoringRule: schema validation, then the
\* pre('save') hook, then the insert under the unique index.
SaveOutcome(rules, doc) ==
    IF ~FieldsInRange(doc) THEN "InvalidRange"
    ELSE IF RangeIsEmpty(doc.minPercentage, doc.maxPercentage) THEN "InvalidRange"
    ELSE IF OverlapQuery(rules, NoRule, doc.questionnaireId, doc.categoryId,
                         doc.minPercentage, doc.maxPercentage) # {}
         THEN "RangeOverlap"
    ELSE IF IndexRejects(rules, NoRule, doc) THEN "DuplicateKey"
    ELSE "created"

\* whether save() got as far as the overlap findOne
SaveScanned(doc) ==
    FieldsInRange(doc) /\ ~RangeIsEmpty(doc.minPercentage, doc.maxPercentage)

BandIdle == bandResult.op = "none" /\ bulkCount = 0

BandFrame == UNCHANGED <<qnVars, questionVars, saveVars>>

\* what a response carries of the rule the overlap findOne found: the hooks
\* throw new Error('Scoring rule ranges cannot overlap') and the routes answer
\* { success: false, error: 'Scoring rule ranges cannot overlap' }, so nothing
OverlapErrorRule == NoRule

NoResult == [op |-> "none", body |-> NoRule, target |-> NoRule,
             conflict |-> OverlapErrorRule, outcome |-> "none", scanned |-> FALSE]

\* POST /api/scoring-rules
InsertBand(body) ==
    /\ BandIdle
    /\ LET outcome == SaveOutcome(scoringRules, body) IN
       /\ outcome = "created" => Cardinality(scoringRules) < MaxRules
       /\ scoringRules' = IF outcome = "created"
                          THEN scoringRules \cup {body} ELSE scoringRules
       /\ bandResult' = [op |-> "insert", body |-> body, target |-> NoRule,
                         conflict |-> OverlapErrorRule,
                         outcome |-> outcome, scanned |-> SaveScanned(body)]
    /\ UNCHANGED bulkCount
    /\ BandFrame

\* POST /api/scoring-rules/bulk: the request arrives, then per rule of the
\* list one save() and the push of its result, then the response
BulkBegin ==
    /\ BandIdle
    /\ bulkCount' = 1
    /\ UNCHANGED <<scoringRules, bandResult>>
    /\ BandFrame

BulkSave(body) ==
    /\ bulkCount \in 1..MaxBulk
    /\ bandResult.op = "none"
    /\ LET outcome == SaveOutcome(scoringRules, body) IN
       /\ outcome = "created" => Cardinality(scoringRules) < MaxRules
       /\ scoringRules' = IF outcome = "created"
                          THEN scoringRules \cup {body} ELSE scoringRules
       /\ bandResult' = [op |-> "bulk", body |-> body, target |-> NoRule,
                         conflict |-> OverlapErrorRule,
                         outcome |-> outcome, scanned |-> SaveScanned(body)]
    /\ UNCHANGED bulkCount
    /\ BandFrame

BulkPush ==
    /\ bulkCount > 0
    /\ bandResult.op = "bulk"
    /\ bandResult' = NoResult
    /\ bulkCount' = bulkCount + 1
    /\ UNCHANGED scoringRules
    /\ BandFrame

BulkRespond ==
    /\ bulkCount > 0
    /\ bandResult.op = "none"
    /\ bulkCount' = 0
    /\ UNCHANGED <<scoringRules, bandResult>>
    /\ BandFrame

\* `update.categoryId ?? current.categoryId` taken as `update.categoryId`
CoalesceKeepsNull(updateValue, currentValue) ==
    IF updateValue = CategoryAbsent THEN currentValue ELSE updateValue

\* pre('findOneAndUpdate'): `update.categoryId ?? current.categoryId`; the
\* right operand is taken for a null and for a missing left operand alike
Coalesce(updateValue, currentValue) ==
    IF updateValue \in {CategoryNull, CategoryAbsent} THEN currentValue ELSE updateValue

\* the record the hook checks; the route's validation has made sure that the
\* body carries questionnaireId, minPercentage and maxPercentage
Merged(current, update) ==
    [questionnaireId |-> update.questionnaireId,
     categoryId |-> Coalesce(update.categoryId, current.categoryId),
     minPercentage |-> update.minPercentage,
     maxPercentage |-> update.maxPercentage]

\* the document after $set of the body: a key the body lacks is left alone
Updated(current, update) ==
    [questionnaireId |-> update.questionnaireId,
     categoryId |-> IF update.categoryId = CategoryAbsent
                    THEN current.categoryId ELSE update.categoryId,
     minPercentage |-> update.minPercentage,
     maxPercentage |-> update.maxPercentage]

\* the overlap findOne of the update hook that forgets _id: { $ne: current._id }
UpdateOverlapQueryWithSelf(rules, current, m) ==
    OverlapQuery(rules, NoRule, m.questionnaireId, m.categoryId,
                 m.minPercentage, m.maxPercentage)

\* the overlap findOne of the update hook
UpdateOverlapQuery(rules, current, m) ==
    OverlapQuery(rules, current, m.questionnaireId, m.categoryId,
                 m.minPercentage, m.maxPercentage)

\* findByIdAndUpdate(id, body, { runValidators: true }) with its hook, for a
\* body that passed the route's validation
UpdateOutcome(rules, current, update) ==
    IF current \notin rules THEN "NotFound"
    ELSE LET m == Merged(current, update) IN
         IF RangeIsEmpty(m.minPercentage, m.maxPercentage) THEN "InvalidRange"
         ELSE IF UpdateOverlapQuery(rules, current, m) # {} THEN "RangeOverlap"
         ELSE IF IndexRejects(rules, current, Updated(current, update))
              THEN "DuplicateKey"
         ELSE "updated"

\* the route's own checks: validateScoringRule and the min >= max test
RouteRejects(body) ==
    \/ ~FieldsInRange(body)
    \/ RangeIsEmpty(body.minPercentage, body.maxPercentage)

\* PUT /api/scoring-rules/:id
UpdateBand(current, update) ==
    /\ BandIdle
    /\ LET outcome == IF RouteRejects(update) THEN "InvalidRange"
                      ELSE UpdateOutcome(scoringRules, current, update)
       IN
       /\ scoringRules' = IF outcome = "updated"
                          THEN (scoringRules \ {current}) \cup {Updated(current, update)}
                          ELSE scoringRules
       /\ bandResult' = [op |-> "update", body |-> update, target |-> current,
                         conflict |-> OverlapErrorRule,
                         outcome |-> outcome,
                         scanned |-> ~RouteRejects(update) /\ current \in scoringRules]
    /\ UNCHANGED bulkCount
    /\ BandFrame

\* DELETE /api/scoring-rules/:id
DeleteBand(current) ==
    /\ BandIdle
    /\ scoringRules' = scoringRules \ {current}
    /\ bandResult' = [op |-> "delete", body |-> NoRule, target |-> current,
                         conflict |-> OverlapErrorRule,
                      outcome |-> IF current \in scoringRules
                                  THEN "deleted" ELSE "NotFound",
                      scanned |-> FALSE]
    /\ UNCHANGED bulkCount
    /\ BandFrame

\* res.json of POST /, PUT /:id and DELETE /:id
BandRespond ==
    /\ bulkCount = 0
    /\ bandResult.op # "none"
    /\ bandResult' = NoResult
    /\ UNCHANGED <<scoringRules, bulkCount>>
    /\ BandFrame

InitBands ==
    /\ scoringRules = {}
    /\ bandResult = NoResult
    /\ bulkCount = 0
    /\ savePc = [h \in Handlers |-> "idle"]
    /\ saveDoc = [h \in Handlers |-> NoRule]

NextBands ==
    \/ \E body \in RuleBodies : InsertBand(body)
    \/ BulkBegin
    \/ \E body \in RuleBodies : BulkSave(body)
    \/ BulkPush
    \/ BulkRespond
    \/ \E current \in scoringRules \cup {NoRule}, update \in RuleBodies :
          UpdateBand(current, update)
    \/ \E current \in scoringRules \cup {NoRule} : DeleteBand(current)
    \/ BandRespond

\* ------------------------------------------ concurrent POST /api/scoring-rules
\* scoringRule.save() is two store accesses, the findOne of the pre('save')
\* hook and the insert; requests of other handlers come in between.
\* The racing requests are for one questionnaire, in its category scope and
\* in its overall scope (categoryId null, or no categoryId), with two ranges
\* that intersect without being equal.
RaceRanges == {<<0, 66>>, <<33, 100>>}
RaceBodies ==
    {RuleBody(1, c, r) : c \in CategoryIds \cup {CategoryNull, CategoryAbsent},
                         r \in RaceRanges}

SaveFrame == UNCHANGED <<qnVars, questionVars, bandResult, bulkCount>>

\* the pre('save') hook: the overlap findOne
SaveScan(h, doc) ==
    /\ savePc[h] = "idle"
    /\ savePc' = [savePc EXCEPT ![h] =
          IF OverlapQuery(scoringRules, NoRule, doc.questionnaireId, doc.categoryId,
                          doc.minPercentage, doc.maxPercentage) # {}
          THEN "RangeOverlap" ELSE "scanned"]
    /\ saveDoc' = [saveDoc EXCEPT ![h] = doc]
    /\ UNCHANGED scoringRules
    /\ SaveFrame

\* an insert that repeats the overlap scan in the same step as the write
SaveInsertRescans(h) ==
    /\ savePc[h] = "scanned"
    /\ IF OverlapQuery(scoringRules, NoRule, saveDoc[h].questionnaireId,
                       saveDoc[h].categoryId, saveDoc[h].minPercentage,
                       saveDoc[h].maxPercentage) # {}
       THEN /\ savePc' = [savePc EXCEPT ![h] = "RangeOverlap"]
            /\ UNCHANGED scoringRules
       ELSE /\ Cardinality(scoringRules) < MaxRules
            /\ savePc' = [savePc EXCEPT ![h] = "created"]
            /\ scoringRules' = scoringRules \cup {saveDoc[h]}
    /\ UNCHANGED saveDoc
    /\ SaveFrame

\* the insert, under the unique index
SaveInsert(h) ==
    /\ savePc[h] = "scanned"
    /\ IF IndexRejects(scoringRules, NoRule, saveDoc[h])
       THEN /\ savePc' = [savePc EXCEPT ![h] = "DuplicateKey"]
            /\ UNCHANGED scoringRules
       ELSE /\ Cardinality(scoringRules) < MaxRules
            /\ savePc' = [savePc EXCEPT ![h] = "created"]
            /\ scoringRules' = scoringRules \cup {saveDoc[h]}
    /\ UNCHANGED saveDoc
    /\ SaveFrame

\* the 201, or the 400 / 500 of the catch
SaveRespond(h) ==
    /\ savePc[h] \in {"RangeOverlap", "DuplicateKey", "created"}
    /\ savePc' = [savePc EXCEPT ![h] = "idle"]
    /\ saveDoc' = [saveDoc EXCEPT ![h] = NoRule]
    /\ UNCHANGED scoringRules
    /\ SaveFrame

NextSaveRace ==
    \E h \in Handlers :
        \/ \E doc \in RaceBodies : SaveScan(h, doc)
        \/ SaveInsert(h)
        \/ SaveRespond(h)

\* ------------------------------------------------------------ level lookup
\* levelName of a rule, and the rules POST / takes in the level lookup's
\* specification: three ranges in a row, so that two rules of a scope can be
\* stored with a gap between them
LevelNames == {"Low", "High"}
LevelRanges == {<<0, 33>>, <<33, 66>>, <<66, 100>>}
LevelPercentages == {0, 33, 50, 66, 100}

LevelBodies ==
    {[questionnaireId |-> q, categoryId |-> c,
      minPercentage |-> r[1], maxPercentage |-> r[2], levelName |-> l] :
        q \in QuestionnaireRefs,
        c \in CategoryIds \cup {CategoryNull, CategoryAbsent},
        r \in LevelRanges, l \in LevelNames}

\* the filter { categoryId } with the bounds compared strictly
LevelFilterStrict(rule, questionnaireId, categoryId, percentage) ==
    /\ rule.questionnaireId = questionnaireId
    /\ IF categoryId \in {CategoryNull, CategoryAbsent}
       THEN rule.categoryId \in {CategoryNull, CategoryAbsent}
       ELSE rule.categoryId = categoryId
    /\ rule.minPercentage < percentage
    /\ rule.maxPercentage > percentage

\* the filter of getLevelForPercentage: { questionnaireId, categoryId,
\* minPercentage: { $lte: percentage }, maxPercentage: { $gte: percentage } };
\* an undefined categoryId is sent as null, and { categoryId: null } matches
\* a null and a missing field
LevelFilter(rule, questionnaireId, categoryId, percentage) ==
    /\ rule.questionnaireId = questionnaireId
    /\ IF categoryId \in {CategoryNull, CategoryAbsent}
       THEN rule.categoryId \in {CategoryNull, CategoryAbsent}
       ELSE rule.categoryId = categoryId
    /\ rule.minPercentage <= percentage
    /\ rule.maxPercentage >= percentage

\* a lookup whose filter leaves categoryId out
GetLevelInAnyScope(rules, questionnaireId, categoryId, percentage) ==
    LET found == {rule \in rules :
                     /\ rule.questionnaireId = questionnaireId
                     /\ rule.minPercentage <= percentage
                     /\ rule.maxPercentage >= percentage}
    IN  IF found = {} THEN {"Unknown"} ELSE {rule.levelName : rule \in found}

\* getLevelForPercentage: findOne(filter) has no sort, so with several
\* matching rules any of them may be the one returned; the set of the
\* answers it can give
GetLevelForPercentage(rules, questionnaireId, categoryId, percentage) ==
    LET found == {rule \in rules :
                     LevelFilter(rule, questionnaireId, categoryId, percentage)}
    IN  IF found = {} THEN {"Unknown"} ELSE {rule.levelName : rule \in found}

\* POST /api/scoring-rules/level
PostLevel(questionnaireId, categoryId, percentage) ==
    /\ BandIdle
    /\ \E level \in GetLevelForPercentage(scoringRules, questionnaireId,
                                          categoryId, percentage) :
          bandResult' = [op |-> "level",
                         body |-> [questionnaireId |-> questionnaireId,
                                   categoryId |-> categoryId,
                                   percentage |-> percentage],
                         target |-> NoRule, conflict |-> OverlapErrorRule,
                         outcome |-> level, scanned |-> FALSE]
    /\ UNCHANGED <<scoringRules, bulkCount>>
    /\ BandFrame

NextLevels ==
    \/ \E body \in LevelBodies : InsertBand(body)
    \/ \E current \in scoringRules : DeleteBand(current)
    \/ \E q \in QuestionnaireRefs,
          c \in CategoryIds \cup {CategoryNull, CategoryAbsent},
          p \in LevelPercentages : PostLevel(q, c, p)
    \/ BandRespond

\* ------------------------------------------------- POST /calculate-results
\* Percentages of this route have two decimals and are kept in hundredths.
Scores == 0..MaxScore

\* maxScore > 0 ? Math.round((score / maxScore) * 100 * 100) / 100 : 0
PercentageOf(score, maxScore) ==
    IF maxScore > 0
    THEN (2 * score * 10000 + maxScore) \div (2 * maxScore)
    ELSE 0

\* rule.categoryId after populate('categoryId', 'name'): the Category
\* document, or null when the rule has no categoryId or no Category with
\* that id exists (DELETE /api/categories/:id removes the category only)
Populated(rule, categories) ==
    IF rule.categoryId \in categories THEN rule.categoryId ELSE CategoryNull

\* percentage >= rule.minPercentage && percentage <= rule.maxPercentage
InRuleRange(rule, percentage) ==
    /\ percentage >= rule.minPercentage * 100
    /\ percentage <= rule.maxPercentage * 100

\* scoringRules.find(...)?.levelName || 'Unknown' over the array that
\* ScoringRule.find({ questionnaireId }) returned, in the store's order: the
\* first match is any of the matching rules
FirstLevel(matching) ==
    IF matching = {} THEN {"Unknown"} ELSE {rule.levelName : rule \in matching}

\* overallRule: !rule.categoryId and in range
OverallLevels(rules, questionnaireId, categories, percentage) ==
    FirstLevel({rule \in rules :
                   /\ rule.questionnaireId = questionnaireId
                   /\ Populated(rule, categories) = CategoryNull
                   /\ InRuleRange(rule, percentage)})

\* categoryRule: rule.categoryId && rule.categoryId._id.toString() ===
\* categoryId and in range
CategoryLevels(rules, questionnaireId, categories, categoryId, percentage) ==
    FirstLevel({rule \in rules :
                   /\ rule.questionnaireId = questionnaireId
                   /\ Populated(rule, categories) # CategoryNull
                   /\ Populated(rule, categories) = categoryId
                   /\ InRuleRange(rule, percentage)})

\* POST /api/scoring-rules/calculate-results with one entry in
\* categoryScores (the entries are classified one by one, each on its own);
\* categories is the Category collection at the time of the request
CalculateResults(questionnaireId, totalScore, maxPossibleScore, categoryId, score, maxScore, categories) ==
    LET overallPercentage == PercentageOf(totalScore, maxPossibleScore)
        percentage == PercentageOf(score, maxScore)
    IN
    /\ BandIdle
    /\ \E overall \in OverallLevels(scoringRules, questionnaireId, categories,
                                    overallPercentage),
          category \in CategoryLevels(scoringRules, questionnaireId, categories,
                                      categoryId, percentage) :
          bandResult' = [op |-> "calculate",
                         body |-> [questionnaireId |-> questionnaireId,
                                   categoryId |-> categoryId,
                                   overallPercentage |-> overallPercentage,
                                   percentage |-> percentage,
                                   categories |-> categories],
                         target |-> NoRule, conflict |-> OverlapErrorRule,
                         outcome |-> [overall |-> overall, category |-> category],
                         scanned |-> FALSE]
    /\ UNCHANGED <<scoringRules, bulkCount>>
    /\ BandFrame

NextResults ==
    \/ \E body \in LevelBodies : InsertBand(body)
    \/ \E current \in scoringRules : DeleteBand(current)
    \/ \E q \in QuestionnaireRefs, totalScore, maxPossibleScore \in Scores,
          c \in CategoryIds, score, maxScore \in Scores,
          categories \in SUBSET CategoryIds :
          CalculateResults(q, totalScore, maxPossibleScore, c, score, maxScore,
                           categories)
    \/ BandRespond

\* ======================================================== Question orders
QuestionIds == 1..MaxQuestions
OrderNumbers == 1..MaxOrder

NoRequest == [questionnaireId |-> 0, orderNumber |-> 0]

NoLog == [op |-> "none", questionnaireId |-> 0, orderNumber |-> 0, id |-> 0,
          items |-> <<>>, outcome |-> "none", value |-> 0]

QuestionsOf(store, questionnaireId) ==
    {id \in DOMAIN store : store[id].questionnaireId = questionnaireId}

\* getNextOrderNumber that counts the documents instead
CountPlusOne(store, questionnaireId) ==
    Cardinality(QuestionsOf(store, questionnaireId)) + 1

\* Question.getNextOrderNumber: findOne({ questionnaireId }) sorted by
\* orderNumber descending; lastQuestion ? lastQuestion.orderNumber + 1 : 1
GetNextOrderNumber(store, questionnaireId) ==
    LET ids == QuestionsOf(store, questionnaireId) IN
    IF ids = {} THEN 1
    ELSE (CHOOSE n \in {store[id].orderNumber : id \in ids} :
              \A id \in ids : store[id].orderNumber <= n) + 1

\* the pre('save') findOne without its questionnaireId
ExistingOrderAnywhere(store, self, questionnaireId, orderNumber) ==
    \E id \in DOMAIN store \ {self} : store[id].orderNumber = orderNumber

\* pre('save'): findOne({ questionnaireId, orderNumber, _id: { $ne: this._id } })
ExistingQuestion(store, self, questionnaireId, orderNumber) ==
    \E id \in DOMAIN store \ {self} :
        /\ store[id].questionnaireId = questionnaireId
        /\ store[id].orderNumber = orderNumber

\* a store without the unique index
OrderIndexMissing(store, self, questionnaireId, orderNumber) == FALSE

\* the compound unique index { questionnaireId: 1, orderNumber: 1 }, which the
\* store applies to every single document write
OrderIndexRejects(store, self, questionnaireId, orderNumber) ==
    \E id \in DOMAIN store \ {self} :
        /\ store[id].questionnaireId = questionnaireId
        /\ store[id].orderNumber = orderNumber

QuestionFrame == UNCHANGED <<qnVars, bandVars, saveVars, questionLog>>

\* POST /api/questions without orderNumber: the getNextOrderNumber read
CreateReadNextOrder(h, questionnaireId) ==
    /\ questionPc[h] = "idle"
    /\ nextQuestionId \in QuestionIds
    /\ GetNextOrderNumber(questions, questionnaireId) \in OrderNumbers
    /\ questionPc' = [questionPc EXCEPT ![h] = "next_read"]
    /\ questionReq' = [questionReq EXCEPT ![h] =
          [questionnaireId |-> questionnaireId,
           orderNumber |-> GetNextOrderNumber(questions, questionnaireId)]]
    /\ UNCHANGED <<questions, nextQuestionId>>
    /\ QuestionFrame

\* question.save(), first part: the findOne of the pre('save') hook
PreSaveCheck(h, questionnaireId, orderNumber) ==
    /\ IF ExistingQuestion(questions, 0, questionnaireId, orderNumber)
       THEN /\ questionPc' = [questionPc EXCEPT ![h] = "DuplicateOrder"]
            /\ questionReq' = [questionReq EXCEPT ![h] = NoRequest]
       ELSE /\ questionPc' = [questionPc EXCEPT ![h] = "checked"]
            /\ questionReq' = [questionReq EXCEPT ![h] =
                  [questionnaireId |-> questionnaireId,
                   orderNumber |-> orderNumber]]
    /\ UNCHANGED <<questions, nextQuestionId>>
    /\ QuestionFrame

\* POST /api/questions with an orderNumber
CreateCheckExplicit(h, questionnaireId, orderNumber) ==
    /\ questionPc[h] = "idle"
    /\ nextQuestionId \in QuestionIds
    /\ PreSaveCheck(h, questionnaireId, orderNumber)

CreateCheckAssigned(h) ==
    /\ questionPc[h] = "next_read"
    /\ PreSaveCheck(h, questionReq[h].questionnaireId, questionReq[h].orderNumber)

\* question.save(), second part: the insert. An error of the hook carries
\* the message the route's catch looks for (400); the index's duplicate key
\* error does not, and the catch answers 500 'Failed to create question'.
CreateInsert(h) ==
    /\ questionPc[h] = "checked"
    /\ IF OrderIndexRejects(questions, 0, questionReq[h].questionnaireId,
                            questionReq[h].orderNumber)
       THEN /\ questionPc' = [questionPc EXCEPT ![h] = "ServerError"]
            /\ UNCHANGED <<questions, nextQuestionId>>
       ELSE /\ nextQuestionId \in QuestionIds
            /\ questions' =
                  [id \in DOMAIN questions \cup {nextQuestionId} |->
                      IF id = nextQuestionId
                      THEN [questionnaireId |-> questionReq[h].questionnaireId,
                            orderNumber |-> questionReq[h].orderNumber]
                      ELSE questions[id]]
            /\ nextQuestionId' = nextQuestionId + 1
            /\ questionPc' = [questionPc EXCEPT ![h] = "created"]
    /\ questionReq' = [questionReq EXCEPT ![h] = NoRequest]
    /\ QuestionFrame

\* the 201, or the 400 / 500 of the catch
CreateRespond(h) ==
    /\ questionPc[h] \in {"DuplicateOrder", "ServerError", "created"}
    /\ questionPc' = [questionPc EXCEPT ![h] = "idle"]
    /\ UNCHANGED <<questions, nextQuestionId, questionReq>>
    /\ QuestionFrame

\* PUT /api/questions/:id: findByIdAndUpdate(id, updateData); 0 stands for a
\* key the body lacks
UpdateQuestion(h, id, questionnaireId, orderNumber) ==
    /\ questionPc[h] = "idle"
    /\ IF id \in DOMAIN questions
       THEN LET now == [questionnaireId |->
                           IF questionnaireId = 0
                           THEN questions[id].questionnaireId ELSE questionnaireId,
                        orderNumber |->
                           IF orderNumber = 0
                           THEN questions[id].orderNumber ELSE orderNumber]
            IN  IF OrderIndexRejects(questions, id, now.questionnaireId, now.orderNumber)
                THEN UNCHANGED questions
                ELSE questions' = [questions EXCEPT ![id] = now]
       ELSE UNCHANGED questions
    /\ UNCHANGED <<nextQuestionId, questionPc, questionReq>>
    /\ QuestionFrame

\* DELETE /api/questions/:id
DeleteQuestion(h, id) ==
    /\ questionPc[h] = "idle"
    /\ id \in DOMAIN questions
    /\ questions' = [k \in DOMAIN questions \ {id} |-> questions[k]]
    /\ UNCHANGED <<nextQuestionId, questionPc, questionReq>>
    /\ QuestionFrame

\* POST /api/questions/reorder: Question.bulkWrite(bulkOps), ordered: the
\* server applies one updateOne after the other and stops at the first error.
\* The request's list has any length: its items are drawn as they are applied.
ReorderBegin(h, questionnaireId) ==
    /\ questionPc[h] = "idle"
    /\ questionPc' = [questionPc EXCEPT ![h] = "reorder"]
    /\ questionReq' = [questionReq EXCEPT ![h] =
          [questionnaireId |-> questionnaireId, orderNumber |-> 0]]
    /\ UNCHANGED <<questions, nextQuestionId>>
    /\ QuestionFrame

\* updateOne: { filter: { _id: questionId, questionnaireId }, update: { orderNumber } }
ReorderItem(h, questionId, orderNumber) ==
    /\ questionPc[h] = "reorder"
    /\ IF /\ questionId \in DOMAIN questions
          /\ questions[questionId].questionnaireId = questionReq[h].questionnaireId
       THEN IF OrderIndexRejects(questions, questionId,
                                 questionReq[h].questionnaireId, orderNumber)
            THEN /\ questionPc' = [questionPc EXCEPT ![h] = "idle"]
                 /\ questionReq' = [questionReq EXCEPT ![h] = NoRequest]
                 /\ UNCHANGED questions
            ELSE /\ questions' =
                       [questions EXCEPT ![questionId].orderNumber = orderNumber]
                 /\ UNCHANGED <<questionPc, questionReq>>
       ELSE UNCHANGED <<questions, questionPc, questionReq>>
    /\ UNCHANGED nextQuestionId
    /\ QuestionFrame

ReorderEnd(h) ==
    /\ questionPc[h] = "reorder"
    /\ questionPc' = [questionPc EXCEPT ![h] = "idle"]
    /\ questionReq' = [questionReq EXCEPT ![h] = NoRequest]
    /\ UNCHANGED <<questions, nextQuestionId>>
    /\ QuestionFrame

InitQuestions ==
    /\ questions = <<>>
    /\ nextQuestionId = 1
    /\ questionPc = [h \in Handlers |-> "idle"]
    /\ questionReq = [h \in Handlers |-> NoRequest]
    /\ questionLog = NoLog

NextQuestions ==
    \E h \in Handlers :
        \/ \E q \in QuestionnaireRefs : CreateReadNextOrder(h, q)
        \/ \E q \in QuestionnaireRefs, n \in OrderNumbers : CreateCheckExplicit(h, q, n)
        \/ CreateCheckAssigned(h)
        \/ CreateInsert(h)
        \/ CreateRespond(h)
        \/ \E id \in QuestionIds, q \in QuestionnaireRefs \cup {0},
              n \in OrderNumbers \cup {0} : UpdateQuestion(h, id, q, n)
        \/ \E id \in QuestionIds : DeleteQuestion(h, id)
        \/ \E q \in QuestionnaireRefs : ReorderBegin(h, q)
        \/ \E id \in QuestionIds, n \in OrderNumbers : ReorderItem(h, id, n)
        \/ ReorderEnd(h)

\* ------------------------------------------- question routes, one at a time
\* Without a concurrent request a route handler runs from its first store
\* access to its response with nothing in between: one action per request,
\* built from the same store operations as the concurrent handlers above.
QuestionSeqFrame ==
    UNCHANGED <<qnVars, bandVars, saveVars, questionPc, questionReq>>

\* GET /api/questions/next-order/:questionnaireId
GetNextOrder(questionnaireId) ==
    /\ questionLog.op = "none"
    /\ questionLog' = [NoLog EXCEPT !.op = "next_order",
                                    !.questionnaireId = questionnaireId,
                                    !.outcome = "ok",
                                    !.value = GetNextOrderNumber(questions, questionnaireId)]
    /\ UNCHANGED <<questions, nextQuestionId>>
    /\ QuestionSeqFrame

\* question.save() of a new Question: the pre('save') findOne, then the
\* insert under the unique index; the catch of POST / turns the hook's
\* message into the 400 'Order number already exists in this questionnaire'
\* and any other error into the 500 'Failed to create question'
SaveQuestionOutcome(store, questionnaireId, orderNumber) ==
    IF ExistingQuestion(store, 0, questionnaireId, orderNumber) THEN "DuplicateOrder"
    ELSE IF OrderIndexRejects(store, 0, questionnaireId, orderNumber) THEN "ServerError"
    ELSE "created"

\* the order numbers a request may carry: the valid ones and one below 1
InvalidOrderNumber == 0 - 1
RequestOrderNumbers == OrderNumbers \cup {InvalidOrderNumber}

\* validateQuestion, the custom validator of orderNumber / order_number: a
\* value that is given has to be an integer of at least 1 (the model's
\* numbers are all integers)
OrderNumberValid(value) == value >= 1

\* the 400 of a POST / or PUT /:id whose body carries an orderNumber the
\* validator turns down; 0 stands for a body without one (undefined or null)
RouteRejectsOrder(orderNumber) ==
    orderNumber # 0 /\ ~OrderNumberValid(orderNumber)

\* POST /api/questions
PostQuestion(questionnaireId, orderNumber) ==
    LET assigned == IF orderNumber = 0
                    THEN GetNextOrderNumber(questions, questionnaireId)
                    ELSE orderNumber
        outcome == IF RouteRejectsOrder(orderNumber) THEN "ValidationError"
                   ELSE SaveQuestionOutcome(questions, questionnaireId, assigned)
    IN
    /\ questionLog.op = "none"
    /\ outcome = "created" => nextQuestionId \in QuestionIds
    /\ assigned <= MaxOrder
    /\ IF outcome = "created"
       THEN /\ questions' =
                  [id \in DOMAIN questions \cup {nextQuestionId} |->
                      IF id = nextQuestionId
                      THEN [questionnaireId |-> questionnaireId,
                            orderNumber |-> assigned]
                      ELSE questions[id]]
            /\ nextQuestionId' = nextQuestionId + 1
       ELSE UNCHANGED <<questions, nextQuestionId>>
    /\ questionLog' = [NoLog EXCEPT !.op = "create",
                                    !.questionnaireId = questionnaireId,
                                    !.orderNumber = orderNumber,
                                    !.id = IF outcome = "created" THEN nextQuestionId ELSE 0,
                                    !.outcome = outcome,
                                    !.value = assigned]
    /\ QuestionSeqFrame

\* res.json / res.status(...).json of a question route
QuestionRespond ==
    /\ questionLog.op # "none"
    /\ questionLog' = NoLog
    /\ UNCHANGED <<questions, nextQuestionId>>
    /\ QuestionSeqFrame

\* PUT /api/questions/:id: findByIdAndUpdate(id, updateData); 0 stands for a
\* key the body lacks. A duplicate key error of the index has no
\* 'Order number already exists' in its message: the catch answers 500.
PutQuestion(id, questionnaireId, orderNumber) ==
    LET now == [questionnaireId |->
                   IF questionnaireId = 0
                   THEN questions[id].questionnaireId ELSE questionnaireId,
                orderNumber |->
                   IF orderNumber = 0
                   THEN questions[id].orderNumber ELSE orderNumber]
        outcome == IF RouteRejectsOrder(orderNumber) THEN "ValidationError"
                   ELSE IF id \notin DOMAIN questions THEN "NotFound"
                   ELSE IF OrderIndexRejects(questions, id, now.questionnaireId,
                                             now.orderNumber)
                        THEN "ServerError"
                   ELSE "updated"
    IN
    /\ questionLog.op = "none"
    /\ questions' = IF outcome = "updated"
                    THEN [questions EXCEPT ![id] = now] ELSE questions
    /\ questionLog' = [NoLog EXCEPT !.op = "update",
                                    !.questionnaireId = questionnaireId,
                                    !.orderNumber = orderNumber,
                                    !.id = id,
                                    !.outcome = outcome]
    /\ UNCHANGED nextQuestionId
    /\ QuestionSeqFrame

\* DELETE /api/questions/:id: findByIdAndDelete
DeleteQuestionById(id) ==
    /\ questionLog.op = "none"
    /\ questions' = [k \in DOMAIN questions \ {id} |-> questions[k]]
    /\ questionLog' = [NoLog EXCEPT !.op = "delete",
                                    !.id = id,
                                    !.outcome = IF id \in DOMAIN questions
                                                THEN "deleted" ELSE "NotFound"]
    /\ UNCHANGED nextQuestionId
    /\ QuestionSeqFrame

\* questionOrders of POST /reorder: lists of <<questionId, orderNumber>>
ReorderLists ==
    UNION {[1..n -> QuestionIds \X OrderNumbers] : n \in 0..MaxReorder}

\* the same lists with any number a caller may send: the route and
\* reorderQuestions pass orderNumber on as it came
ReorderListsAnyOrder ==
    UNION {[1..n -> QuestionIds \X RequestOrderNumbers] : n \in 0..MaxReorder}

\* an updateOne whose filter is { _id: questionId } alone
UpdateOneMatchesIdOnly(store, questionnaireId, item) ==
    item[1] \in DOMAIN store

\* one updateOne of the bulkWrite:
\* { filter: { _id: questionId, questionnaireId }, update: { orderNumber } }
UpdateOneMatches(store, questionnaireId, item) ==
    /\ item[1] \in DOMAIN store
    /\ store[item[1]].questionnaireId = questionnaireId

UpdateOneRejected(store, questionnaireId, item) ==
    /\ UpdateOneMatches(store, questionnaireId, item)
    /\ OrderIndexRejects(store, item[1], questionnaireId, item[2])

UpdateOneApplied(store, questionnaireId, item) ==
    IF UpdateOneMatches(store, questionnaireId, item)
    THEN [store EXCEPT ![item[1]].orderNumber = item[2]]
    ELSE store

\* Question.bulkWrite(bulkOps) from operation k on: ordered by default, the
\* operations are applied in list order and the first write error ends the
\* batch, the operations before it staying applied
RECURSIVE BulkWrite(_, _, _, _)
BulkWrite(store, questionnaireId, items, k) ==
    IF k > Len(items) THEN [store |-> store, failedAt |-> 0]
    ELSE IF UpdateOneRejected(store, questionnaireId, items[k])
         THEN [store |-> store, failedAt |-> k]
    ELSE BulkWrite(UpdateOneApplied(store, questionnaireId, items[k]),
                   questionnaireId, items, k + 1)

\* POST /api/questions/reorder: reorderQuestions, then the success message,
\* or in the catch the 500 'Failed to reorder questions'
PostReorder(questionnaireId, items) ==
    LET written == BulkWrite(questions, questionnaireId, items, 1) IN
    /\ questionLog.op = "none"
    /\ questions' = written.store
    /\ questionLog' = [NoLog EXCEPT !.op = "reorder",
                                    !.questionnaireId = questionnaireId,
                                    !.items = items,
                                    !.outcome = IF written.failedAt = 0
                                                THEN "reordered" ELSE "ServerError",
                                    !.value = written.failedAt]
    /\ UNCHANGED nextQuestionId
    /\ QuestionSeqFrame

NextQuestionsSeq ==
    \/ \E q \in QuestionnaireRefs : GetNextOrder(q)
    \/ \E q \in QuestionnaireRefs, n \in OrderNumbers \cup {0} : PostQuestion(q, n)
    \/ \E id \in QuestionIds, q \in QuestionnaireRefs \cup {0},
          n \in OrderNumbers \cup {0} : PutQuestion(id, q, n)
    \/ \E id \in QuestionIds : DeleteQuestionById(id)
    \/ \E q \in QuestionnaireRefs, items \in ReorderLists : PostReorder(q, items)
    \/ QuestionRespond

\* the same routes, called with order numbers of any sign
NextQuestionsAnyOrder ==
    \/ \E q \in QuestionnaireRefs, n \in RequestOrderNumbers \cup {0} :
          PostQuestion(q, n)
    \/ \E id \in QuestionIds, q \in QuestionnaireRefs \cup {0},
          n \in RequestOrderNumbers \cup {0} : PutQuestion(id, q, n)
    \/ \E id \in QuestionIds : DeleteQuestionById(id)
    \/ \E q \in QuestionnaireRefs, items \in ReorderListsAnyOrder :
          PostReorder(q, items)
    \/ QuestionRespond

InitQuestionnaires ==
    /\ questionnaires = <<>>
    /\ pc = [h \in Handlers |-> "idle"]
    /\ target = [h \in Handlers |-> 0]
    /\ docActive = [h \in Handlers |-> FALSE]
    /\ alone = [h \in Handlers |-> TRUE]
    /\ startActive = [h \in Handlers |-> 0]
    /\ result = [h \in Handlers |-> "none"]
    /\ InitBands
    /\ InitQuestions

HandlerNext(h) ==
    \/ \E id \in QIds : ActivateFind(h, id)
    \/ ActivateDeactivateOthers(h)
    \/ ActivateSave(h)
    \/ \E id \in QIds : DeactivateFind(h, id)
    \/ DeactivateSave(h)
    \/ \E body \in BodyIsActive : CreateSave(h, body)
    \/ CreateDeactivateOthers(h)
    \/ \E id \in QIds, body \in BodyIsActive : UpdateFindAndUpdate(h, id, body)
    \/ UpdateDeactivateOthers(h)
    \/ Respond(h)
    \/ Crash(h)

\* Many stateless request handlers in parallel.
NextQuestionnaires == \E h \in Handlers : HandlerNext(h)

\* One request at a time: a single handler serves every request.
NextQuestionnairesSeq == HandlerNext(1)

SpecQuestionnairesSeq == InitQuestionnaires /\ [][NextQuestionnairesSeq]_vars

SpecQuestionnaires == InitQuestionnaires /\ [][NextQuestionnaires]_vars

\* Only PATCH /:id/activate requests, over a collection that holds at most one
\* active questionnaire when the requests begin.
InitActivateOnly ==
    /\ \E n \in 0..MaxQuestionnaires :
         questionnaires \in {s \in [1..n -> [isActive : BOOLEAN]] :
                                Cardinality(ActiveIds(s)) <= 1}
    /\ pc = [h \in Handlers |-> "idle"]
    /\ target = [h \in Handlers |-> 0]
    /\ docActive = [h \in Handlers |-> FALSE]
    /\ alone = [h \in Handlers |-> TRUE]
    /\ startActive = [h \in Handlers |-> 0]
    /\ result = [h \in Handlers |-> "none"]
    /\ InitBands
    /\ InitQuestions

NextActivateOnly ==
    \E h \in Handlers :
        \/ \E id \in QIds : ActivateFind(h, id)
        \/ ActivateDeactivateOthers(h)
        \/ ActivateSave(h)
        \/ Respond(h)

SpecActivateOnly == InitActivateOnly /\ [][NextActivateOnly]_vars

\* Scoring-rule requests served one at a time.
InitIdleHandlers ==
    /\ questionnaires = <<>>
    /\ pc = [h \in Handlers |-> "idle"]
    /\ target = [h \in Handlers |-> 0]
    /\ docActive = [h \in Handlers |-> FALSE]
    /\ alone = [h \in Handlers |-> TRUE]
    /\ startActive = [h \in Handlers |-> 0]
    /\ result = [h \in Handlers |-> "none"]

\* all three collections empty, nothing in progress
InitEmpty ==
    /\ InitIdleHandlers
    /\ InitBands
    /\ InitQuestions

SpecBands == InitEmpty /\ [][NextBands]_vars

SpecLevels == InitEmpty /\ [][NextLevels]_vars

SpecResults == InitEmpty /\ [][NextResults]_vars

SpecSaveRace == InitEmpty /\ [][NextSaveRace]_vars

SpecQuestions == InitEmpty /\ [][NextQuestions]_vars

SpecQuestionsAnyOrder == InitEmpty /\ [][NextQuestionsAnyOrder]_vars

SpecQuestionsSeq == InitEmpty /\ [][NextQuestionsSeq]_vars

\* ================================================================== claims
NumActive == Cardinality(ActiveIds(questionnaires))

\* C1: under any interleaving of activate(id) calls that starts from a
\* collection with at most one active questionnaire, at most one questionnaire
\* is active in every reachable state.
C1_AtMostOneActiveUnderConcurrency == NumActive <= 1

\* C2: when activate(id) on an existing id runs with no other operation
\* interleaved, then right after it resolves exactly one questionnaire is
\* active and it is id, however many were active before.
C2_ActivateAloneLeavesExactlyTarget ==
    \A h \in Handlers :
        (pc[h] = "done" /\ result[h] = "activated" /\ alone[h])
            => ActiveIds(questionnaires) = {target[h]}

C2_Witness ==
    \E h \in Handlers :
        /\ pc[h] = "done" /\ result[h] = "activated" /\ alone[h]
        /\ startActive[h] >= 2
        /\ ActiveIds(questionnaires) = {target[h]}

\* C3: inside one activate(id) with no concurrent writer, between the write
\* that deactivates the others and the write that activates the target (where
\* a crash would leave the store) no questionnaire other than the target is
\* active, so at most one is.
C3_BetweenWritesOnlyTargetMayBeActive ==
    \A h \in Handlers :
        (pc[h] = "act_deactivated" /\ alone[h])
            => /\ ActiveIds(questionnaires) \subseteq {target[h]}
               /\ NumActive <= 1

C3_Witness ==
    \E h \in Handlers :
        /\ pc[h] = "act_deactivated" /\ alone[h]
        /\ startActive[h] >= 1
        /\ NumActive = 0

\* C4: a create or update with isActive = true that starts from exactly one
\* active questionnaire and runs with no concurrent operation never passes
\* through a state (where a crash would leave the store) with two active
\* questionnaires.
C4_CreateUpdateNeverTwoActive ==
    \A h \in Handlers :
        (pc[h] \in {"create_saved", "upd_written"} /\ alone[h] /\ startActive[h] = 1)
            => NumActive <= 1

\* ------------------------------------------------ ScoringRule registry claims
\* What the claims mean by a valid range, a scope and intersecting ranges.
RefValidRange(body) ==
    /\ 0 <= body.minPercentage
    /\ body.minPercentage < body.maxPercentage
    /\ body.maxPercentage <= 100

RefOverall(categoryId) == categoryId \in {CategoryNull, CategoryAbsent}

RefSameScope(a, b) ==
    /\ a.questionnaireId = b.questionnaireId
    /\ \/ RefOverall(a.categoryId) /\ RefOverall(b.categoryId)
       \/ ~RefOverall(a.categoryId) /\ a.categoryId = b.categoryId

RefIntersects(a, b) ==
    a.minPercentage <= b.maxPercentage /\ b.minPercentage <= a.maxPercentage

RefConflicts(rules, body) ==
    {rule \in rules : RefSameScope(rule, body) /\ RefIntersects(rule, body)}

\* C5: after any sequence of insert, bulk insert, update and delete requests
\* served one at a time from an empty collection, no two persisted rules of
\* the same questionnaire and scope have intersecting closed ranges.
C5_NoOverlapWithinScope ==
    \A a, b \in scoringRules :
        (a # b /\ RefSameScope(a, b)) => ~RefIntersects(a, b)

\* C6: an insert of a valid candidate fails with RangeOverlap exactly when a
\* persisted rule of its questionnaire and scope intersects it as a closed
\* range (the three range conditions agree with that test on every persisted
\* rule); a failed insert leaves the collection as it was and a successful one
\* adds exactly the candidate.
C6_InsertOverlapIffIntersects ==
    [][(bandResult'.op = "insert" /\ RefValidRange(bandResult'.body)) =>
        LET body == bandResult'.body
            conflict == RefConflicts(scoringRules, body) # {}
        IN  /\ (bandResult'.outcome = "RangeOverlap") <=> conflict
            /\ \A rule \in scoringRules :
                  OverlapConditions(body.minPercentage, body.maxPercentage, rule)
                      <=> RefIntersects(rule, body)
            /\ conflict => scoringRules' = scoringRules
            /\ ~conflict => /\ bandResult'.outcome = "created"
                            /\ scoringRules' = scoringRules \cup {body}
                            /\ body \notin scoringRules
      ]_vars

\* a candidate that touches a persisted rule of its scope in one bound was
\* turned down
C6_Witness ==
    /\ bandResult.op = "insert"
    /\ bandResult.outcome = "RangeOverlap"
    /\ \E rule \in scoringRules :
          /\ RefSameScope(rule, bandResult.body)
          /\ rule.maxPercentage = bandResult.body.minPercentage
    /\ \A rule \in scoringRules :
          RefSameScope(rule, bandResult.body)
              => rule.maxPercentage <= bandResult.body.minPercentage

\* C7: an insert or an update (and a rule of a bulk insert) whose record has
\* minPercentage >= maxPercentage or a bound outside [0,100] fails with
\* InvalidRange before the overlap scan runs and before any write: the
\* collection is unchanged.
C7_InvalidRangeRejectedFirst ==
    [][(bandResult'.op \in {"insert", "update", "bulk"}
            /\ ~RefValidRange(bandResult'.body)) =>
        /\ bandResult'.outcome = "InvalidRange"
        /\ ~bandResult'.scanned
        /\ scoringRules' = scoringRules
      ]_vars

\* an update to an empty range of a persisted rule was turned down although
\* the scan would have found nothing
C7_Witness ==
    /\ bandResult.op = "update"
    /\ bandResult.outcome = "InvalidRange"
    /\ bandResult.target \in scoringRules
    /\ bandResult.body.minPercentage = bandResult.body.maxPercentage
    /\ ~bandResult.scanned

BoundsOnly(current, update) ==
    /\ update.questionnaireId = current.questionnaireId
    /\ update.categoryId \in {current.categoryId, CategoryAbsent}

C9_UpdateBoundsExcludesSelf ==
    [][(/\ bandResult'.op = "update"
        /\ bandResult'.target \in scoringRules
        /\ BoundsOnly(bandResult'.target, bandResult'.body)) =>
        LET current == bandResult'.target
            wanted == [current EXCEPT
                          !.minPercentage = bandResult'.body.minPercentage,
                          !.maxPercentage = bandResult'.body.maxPercentage]
            acceptable == /\ RefValidRange(wanted)
                          /\ RefConflicts(scoringRules \ {current}, wanted) = {}
        IN  /\ (bandResult'.outcome = "updated") <=> acceptable
            /\ acceptable => scoringRules' = (scoringRules \ {current}) \cup {wanted}
            /\ ~acceptable => scoringRules' = scoringRules
      ]_vars

\* a rule grew over its own previous range, next to another rule of its scope
C9_Witness ==
    /\ bandResult.op = "update"
    /\ bandResult.outcome = "updated"
    /\ BoundsOnly(bandResult.target, bandResult.body)
    /\ bandResult.target # bandResult.body
    /\ RefIntersects(bandResult.target, bandResult.body)
    /\ bandResult.body.minPercentage < bandResult.target.minPercentage
    /\ \E rule \in scoringRules :
          /\ RefSameScope(rule, bandResult.target)
          /\ ~RefIntersects(rule, bandResult.body)

RefNextOrder(store, questionnaireId) ==
    LET orders == {store[id].orderNumber :
                      id \in {k \in DOMAIN store :
                                 store[k].questionnaireId = questionnaireId}}
    IN  IF orders = {} THEN 1
        ELSE CHOOSE n \in 2..(MaxOrder + 1) :
                 (n - 1) \in orders /\ \A m \in orders : m < n

\* C11: nextOrderNumber(Q) answers 1 when Q has no question and otherwise the
\* largest orderNumber of Q's questions plus 1, whatever other questionnaires
\* hold and whatever gaps Q has; it changes no record.
C11_NextOrderIsMaxPlusOne ==
    [][(questionLog.op = "none" /\ questionLog'.op = "next_order")
         => /\ questionLog'.value =
                  RefNextOrder(questions, questionLog'.questionnaireId)
            /\ questions' = questions
            /\ nextQuestionId' = nextQuestionId]_vars

\* the answer skips a gap (it is above the count plus 1) while the other
\* questionnaire has a question as well
C11_Witness ==
    /\ questionLog.op = "next_order"
    /\ questionLog.value >
          Cardinality(QuestionsOf(questions, questionLog.questionnaireId)) + 1
    /\ \E id \in DOMAIN questions :
          questions[id].questionnaireId # questionLog.questionnaireId

\* C12: order numbers are not reused after deletion: a delete never lowers
\* the value nextOrderNumber gives for any questionnaire (after inserting a
\* question at 1 and deleting it, the answer is still 2).
C12_DeleteNeverLowersNextOrder ==
    [][(questionLog.op = "none" /\ questionLog'.op = "delete")
         => \A q \in QuestionnaireRefs :
               GetNextOrderNumber(questions', q) >= GetNextOrderNumber(questions, q)]_vars

\* C13: assignOnCreate persists the question with the caller's orderNumber
\* when one is given and with nextOrderNumber(questionnaireId) when it is
\* omitted; when that number is the orderNumber of an existing question of
\* the same questionnaire the call fails with DuplicateOrder and the
\* collection is unchanged; the same number in another questionnaire succeeds.
C13_AssignOnCreate ==
    [][(questionLog.op = "none" /\ questionLog'.op = "create")
         => LET q == questionLog'.questionnaireId
                number == questionLog'.value
                collides == \E id \in DOMAIN questions :
                                /\ questions[id].questionnaireId = q
                                /\ questions[id].orderNumber = number
            IN  /\ number = IF questionLog'.orderNumber = 0
                            THEN RefNextOrder(questions, q)
                            ELSE questionLog'.orderNumber
                /\ collides => /\ questionLog'.outcome = "DuplicateOrder"
                               /\ questions' = questions
                /\ ~collides =>
                      /\ questionLog'.outcome = "created"
                      /\ \E new \in QuestionIds \ DOMAIN questions :
                            /\ DOMAIN questions' = DOMAIN questions \cup {new}
                            /\ questions'[new] =
                                  [questionnaireId |-> q, orderNumber |-> number]
                            /\ \A id \in DOMAIN questions :
                                  questions'[id] = questions[id]]_vars

\* a create turned down with DuplicateOrder while the other questionnaire
\* holds a question with that very number
C13_Witness ==
    /\ questionLog.op = "create"
    /\ questionLog.outcome = "DuplicateOrder"
    /\ \E id \in DOMAIN questions :
          /\ questions[id].questionnaireId # questionLog.questionnaireId
          /\ questions[id].orderNumber = questionLog.value

\* a reorder that skips an item colliding at the moment it is applied and
\* goes on with the items after it
RECURSIVE RefReorder(_, _, _, _)
RefReorder(store, questionnaireId, items, k) ==
    IF k > Len(items) THEN store
    ELSE LET id == items[k][1]
             number == items[k][2]
             named == id \in DOMAIN store /\ store[id].questionnaireId = questionnaireId
             collides == \E other \in DOMAIN store \ {id} :
                             /\ store[other].questionnaireId = questionnaireId
                             /\ store[other].orderNumber = number
         IN  IF named /\ ~collides
             THEN RefReorder([store EXCEPT ![id].orderNumber = number],
                             questionnaireId, items, k + 1)
             ELSE RefReorder(store, questionnaireId, items, k + 1)

\* C14: reorder(Q, items) never aborts early: every item that does not
\* collide at the moment it is applied is applied, also after an earlier
\* item failed, and the call answers with the applied and the failed items
\* instead of failing as a whole.
C14_ReorderNeverAbortsEarly ==
    [][(questionLog.op = "none" /\ questionLog'.op = "reorder")
         => /\ questions' = RefReorder(questions, questionLog'.questionnaireId,
                                       questionLog'.items, 1)
            /\ questionLog'.outcome # "ServerError"]_vars

\* the items name distinct questions of the questionnaire and hand their
\* current order numbers out again, each once
IsPermutationOfNamed(store, questionnaireId, items) ==
    LET ks == DOMAIN items IN
    /\ items # <<>>
    /\ \A k \in ks : /\ items[k][1] \in DOMAIN store
                      /\ store[items[k][1]].questionnaireId = questionnaireId
    /\ \A j, k \in ks : j # k => /\ items[j][1] # items[k][1]
                                  /\ items[j][2] # items[k][2]
    /\ {items[k][2] : k \in ks} = {store[items[k][1]].orderNumber : k \in ks}

RefCovering(rules, query) ==
    {rule \in rules :
        /\ RefSameScope(rule, query)
        /\ rule.minPercentage <= query.percentage
        /\ query.percentage <= rule.maxPercentage}

\* C16: getLevel(Q, categoryId, p) answers the levelName of a persisted band
\* of Q in the matching scope with min <= p <= max, and "Unknown" when there
\* is none (p in a gap included), and changes no record; right after a
\* successful insertBand of b, getLevel on b's questionnaire and scope
\* answers b.levelName for every p of [b.min, b.max], both ends included.
C16_GetLevel ==
    [][/\ (bandResult.op = "none" /\ bandResult'.op = "level")
          => LET covering == RefCovering(scoringRules, bandResult'.body) IN
             /\ scoringRules' = scoringRules
             /\ covering = {} => bandResult'.outcome = "Unknown"
             /\ covering # {} =>
                   \E rule \in covering : bandResult'.outcome = rule.levelName
       /\ (bandResult'.op = "insert" /\ bandResult'.outcome = "created")
          => LET b == bandResult'.body IN
             \A p \in LevelPercentages :
                 (b.minPercentage <= p /\ p <= b.maxPercentage)
                   => GetLevelForPercentage(scoringRules', b.questionnaireId,
                                            b.categoryId, p) = {b.levelName}
      ]_vars

\* a lookup at the upper bound of an overall band stored without categoryId,
\* asked with categoryId null, answered with that band's level, while a band
\* of the category and a band of the other questionnaire contain p as well
C16_Witness ==
    /\ bandResult.op = "level"
    /\ bandResult.body.categoryId = CategoryNull
    /\ \E rule \in scoringRules :
          /\ rule.questionnaireId = bandResult.body.questionnaireId
          /\ rule.categoryId = CategoryAbsent
          /\ rule.maxPercentage = bandResult.body.percentage
          /\ rule.levelName = bandResult.outcome
    /\ \E rule \in scoringRules :
          /\ ~RefSameScope(rule, bandResult.body)
          /\ rule.minPercentage <= bandResult.body.percentage
          /\ bandResult.body.percentage <= rule.maxPercentage
          /\ rule.levelName # bandResult.outcome

\* a lookup in the gap between two bands of the scope answered "Unknown"
C16_WitnessGap ==
    /\ bandResult.op = "level"
    /\ bandResult.outcome = "Unknown"
    /\ \E low, high \in scoringRules :
          /\ RefSameScope(low, bandResult.body)
          /\ RefSameScope(high, bandResult.body)
          /\ low.maxPercentage < bandResult.body.percentage
          /\ bandResult.body.percentage < high.minPercentage

\* C17: activate(id) and deactivate(id) on an id that does not exist fail
\* with NotFound and change no questionnaire record: a failed activate does
\* not deactivate the active questionnaire.
C17_MissingIdIsNotFound ==
    [][\A h \in Handlers :
          /\ (pc[h] = "idle" /\ pc'[h] # "idle"
                /\ target'[h] \notin DOMAIN questionnaires')
              => /\ pc'[h] = "done"
                 /\ result'[h] = "NotFound"
                 /\ questionnaires' = questionnaires
          /\ (pc[h] = "idle" /\ pc'[h] \in {"act_loaded", "deact_loaded"})
              => target'[h] \in DOMAIN questionnaires]_vars

\* a request for a missing id answered NotFound while the active
\* questionnaire is still active
C17_Witness ==
    \E h \in Handlers :
        /\ pc[h] = "done"
        /\ result[h] = "NotFound"
        /\ target[h] \notin DOMAIN questionnaires
        /\ startActive[h] = 1
        /\ NumActive = 1

\* C18: deactivate(id) sets only id's isActive to false: every other
\* questionnaire keeps its isActive and none is promoted, so deactivating
\* the active questionnaire leaves none active.
C18_DeactivateTouchesOnlyTarget ==
    [][\A h \in Handlers :
          (pc[h] = "deact_loaded" /\ pc'[h] = "done")
              => /\ result'[h] = "deactivated"
                 /\ DOMAIN questionnaires' = DOMAIN questionnaires
                 /\ questionnaires'[target[h]].isActive = FALSE
                 /\ \A id \in DOMAIN questionnaires \ {target[h]} :
                       questionnaires'[id] = questionnaires[id]]_vars

\* the one active questionnaire was deactivated next to an inactive one:
\* none is active
C18_Witness ==
    \E h \in Handlers :
        /\ pc[h] = "done"
        /\ result[h] = "deactivated"
        /\ startActive[h] = 1
        /\ NumActive = 0
        /\ Cardinality(DOMAIN questionnaires) >= 2

\* two were active and one of them was deactivated: the other still is
C18_WitnessOtherStaysActive ==
    \E h \in Handlers :
        /\ pc[h] = "done"
        /\ result[h] = "deactivated"
        /\ startActive[h] = 2
        /\ NumActive = 1

\* C19: when insertBand or updateBand fails with RangeOverlap, the error
\* identifies the conflicting persisted band (its level name and bounds).
C19_OverlapErrorNamesBand ==
    (bandResult.op \in {"insert", "update"} /\ bandResult.outcome = "RangeOverlap")
        => /\ bandResult.conflict \in scoringRules \ {bandResult.target}
           /\ RefIntersects(bandResult.conflict, bandResult.body)

\* the same questionnaire, scope and bounds
RefSameBand(a, b) ==
    /\ RefSameScope(a, b)
    /\ a.minPercentage = b.minPercentage
    /\ a.maxPercentage = b.maxPercentage

\* C20: when two insertBand calls with identical (questionnaireId,
\* categoryId, minPercentage, maxPercentage) run concurrently and both pass
\* the overlap scan before either writes, the compound uniqueness constraint
\* lets at most one persist and the other is reported as a failure, also in
\* the overall scope (categoryId null or absent).
C20_ExactDuplicateRace ==
    [][/\ \A h \in Handlers :
            (savePc[h] = "scanned" /\ savePc'[h] # "scanned")
              => IF \E rule \in scoringRules : RefSameBand(rule, saveDoc[h])
                 THEN /\ savePc'[h] \notin {"created", "idle"}
                      /\ scoringRules' = scoringRules
                 ELSE /\ savePc'[h] = "created"
                      /\ scoringRules' = scoringRules \cup {saveDoc[h]}
       /\ \A a, b \in scoringRules' : RefSameBand(a, b) => a = b]_vars

\* two requests for the same overall-scope band, one with categoryId null
\* and one without categoryId, both past the scan: one was created, the
\* other was turned down by the index
C20_Witness ==
    \E h1, h2 \in Handlers :
        /\ savePc[h1] = "created"
        /\ savePc[h2] = "DuplicateKey"
        /\ saveDoc[h1].categoryId = CategoryAbsent
        /\ saveDoc[h2].categoryId = CategoryNull
        /\ RefSameBand(saveDoc[h1], saveDoc[h2])
        /\ saveDoc[h1] \in scoringRules
        /\ saveDoc[h2] \notin scoringRules

\* C21: the scan and the write of a save are separate steps and the unique
\* index compares whole keys only, so a save that passed its scan is written
\* even when, by then, a different band of the same questionnaire and scope
\* intersecting it has been persisted: both writers succeed and the
\* collection no longer satisfies non-overlap within the scope.
C21_PartialOverlapRace ==
    [][\A h \in Handlers :
          ( /\ savePc[h] = "scanned"
            /\ savePc'[h] # "scanned"
            /\ \E rule \in scoringRules :
                  /\ RefSameScope(rule, saveDoc[h])
                  /\ RefIntersects(rule, saveDoc[h])
            /\ ~ \E rule \in scoringRules : RefSameBand(rule, saveDoc[h]) )
          => /\ savePc'[h] = "created"
             /\ scoringRules' = scoringRules \cup {saveDoc[h]}
             /\ \E a, b \in scoringRules' :
                   a # b /\ RefSameScope(a, b) /\ RefIntersects(a, b)]_vars

\* two writers of one scope with the intervals [0,66] and [33,100] were both
\* answered "created" and both bands are persisted
C21_Witness ==
    \E h1, h2 \in Handlers :
        /\ savePc[h1] = "created"
        /\ savePc[h2] = "created"
        /\ saveDoc[h1] \in scoringRules
        /\ saveDoc[h2] \in scoringRules
        /\ RefSameScope(saveDoc[h1], saveDoc[h2])
        /\ saveDoc[h1].minPercentage = 0 /\ saveDoc[h1].maxPercentage = 66
        /\ saveDoc[h2].minPercentage = 33 /\ saveDoc[h2].maxPercentage = 100

\* C22: when two creates resolve to the same order number of one
\* questionnaire and both pass the hook's check, the write of the second
\* persists nothing and its call fails with DuplicateOrder.
C22_CollidingCreateIsDuplicateOrder ==
    [][\A h \in Handlers :
          ( /\ questionPc[h] = "checked"
            /\ questionPc'[h] # "checked"
            /\ \E id \in DOMAIN questions :
                  /\ questions[id].questionnaireId = questionReq[h].questionnaireId
                  /\ questions[id].orderNumber = questionReq[h].orderNumber )
          => /\ questions' = questions
             /\ questionPc'[h] = "DuplicateOrder"]_vars

\* C23: every persisted question's orderNumber is an integer of at least 1,
\* after any sequence of creates, updates and reorders with whatever order
\* numbers the callers send.
C23_OrderNumberAtLeastOne ==
    \A id \in DOMAIN questions : questions[id].orderNumber >= 1

\* C24: an update is checked as the record it leaves behind and in that
\* record's scope: when the body sets categoryId to another category or to
\* null and the new interval intersects another band of the new scope, the
\* update is rejected with RangeOverlap and nothing is written.
C24_UpdateCheckedInNewScope ==
    [][(/\ bandResult'.op = "update"
        /\ bandResult'.scanned
        /\ bandResult'.body.categoryId # CategoryAbsent
        /\ RefValidRange(bandResult'.body)) =>
        (RefConflicts(scoringRules \ {bandResult'.target}, bandResult'.body) # {}
           => /\ bandResult'.outcome = "RangeOverlap"
              /\ scoringRules' = scoringRules)
      ]_vars

\* C25: when activate calls interleave and every one of them has run to its
\* end, a call that ended successfully among them leaves at least one
\* questionnaire active, also when its target was loaded as active and was
\* deactivated by another call before its save.
C25_CompletedActivateLeavesOneActive ==
    ( /\ \A h \in Handlers : pc[h] \in {"idle", "done"}
      /\ \E h \in Handlers : pc[h] = "done" /\ result[h] = "activated" )
        => NumActive >= 1

\* C26: when the bands of a questionnaire and scope do not intersect one
\* another, at most one of them contains a percentage p, so the lookup has
\* exactly one possible answer for (Q, scope, p): it depends on the set of
\* persisted bands only, not on the order in which the store returns them.
RefScopeBands(questionnaireId, categoryId) ==
    {rule \in scoringRules :
        RefSameScope(rule, [questionnaireId |-> questionnaireId,
                            categoryId |-> categoryId])}

C26_LookupIsDeterministic ==
    \A q \in QuestionnaireRefs, c \in CategoryIds \cup {CategoryNull, CategoryAbsent},
       p \in LevelPercentages :
        (\A a, b \in RefScopeBands(q, c) : a # b => ~RefIntersects(a, b))
          => /\ Cardinality({rule \in RefScopeBands(q, c) :
                                rule.minPercentage <= p /\ p <= rule.maxPercentage}) <= 1
             /\ Cardinality(GetLevelForPercentage(scoringRules, q, c, p)) = 1

\* a scope holds two bands with different levels, a lookup in one of them
\* was answered with its level
C26_Witness ==
    /\ bandResult.op = "level"
    /\ \E a, b \in scoringRules :
          /\ RefSameScope(a, bandResult.body)
          /\ RefSameScope(b, bandResult.body)
          /\ a.levelName # b.levelName
          /\ a.minPercentage <= bandResult.body.percentage
          /\ bandResult.body.percentage <= a.maxPercentage
          /\ bandResult.outcome = a.levelName

\* C27: reorder(Q, items) changes nothing but the orderNumber of questions
\* that belong to Q and are named in items: an item naming a question of
\* another questionnaire or a missing id modifies nothing, and questions not
\* named, questions of other questionnaires, every other field and the set
\* of questions stay as they were.
C27_ReorderFrame ==
    [][(questionLog.op = "none" /\ questionLog'.op = "reorder") =>
          /\ DOMAIN questions' = DOMAIN questions
          /\ nextQuestionId' = nextQuestionId
          /\ \A id \in DOMAIN questions :
                /\ questions'[id].questionnaireId = questions[id].questionnaireId
                /\ questions'[id] # questions[id] =>
                      /\ questions[id].questionnaireId = questionLog'.questionnaireId
                      /\ \E k \in 1..Len(questionLog'.items) :
                            /\ questionLog'.items[k][1] = id
                            /\ questionLog'.items[k][2] = questions'[id].orderNumber
      ]_vars

\* a reorder of one questionnaire named a question of the other one, with a
\* number it does not have, and an id that does not exist, and succeeded
C27_Witness ==
    /\ questionLog.op = "reorder"
    /\ questionLog.outcome = "reordered"
    /\ \E k \in 1..Len(questionLog.items) :
          /\ questionLog.items[k][1] \in DOMAIN questions
          /\ questions[questionLog.items[k][1]].questionnaireId
                # questionLog.questionnaireId
          /\ questions[questionLog.items[k][1]].orderNumber # questionLog.items[k][2]
    /\ \E k \in 1..Len(questionLog.items) :
          questionLog.items[k][1] \notin DOMAIN questions

\* C28: a questionnaire created without isActive is stored active; a create
\* with isActive omitted or true that completes with no concurrent operation
\* leaves the new questionnaire as the only active one; a create with
\* isActive false stores it inactive and changes no other record.
C28_CreateActiveByDefault ==
    [][\A h \in Handlers :
          /\ (pc[h] = "idle" /\ NewQuestionnaireId \in QIds) =>
                /\ \A body \in {"omitted", "true"} :
                      ENABLED ( /\ CreateSave(h, body)
                                /\ questionnaires'[NewQuestionnaireId].isActive
                                /\ pc'[h] = "create_saved" )
                /\ ENABLED ( /\ CreateSave(h, "false")
                             /\ ~questionnaires'[NewQuestionnaireId].isActive
                             /\ pc'[h] = "done" )
          /\ (pc[h] = "create_saved" /\ pc'[h] = "done" /\ alone'[h]) =>
                /\ result'[h] = "created"
                /\ ActiveIds(questionnaires') = {target[h]}
          /\ (pc[h] = "idle" /\ pc'[h] = "done" /\ result'[h] = "created") =>
                /\ DOMAIN questionnaires' = DOMAIN questionnaires \cup {target'[h]}
                /\ ~questionnaires'[target'[h]].isActive
                /\ \A id \in DOMAIN questionnaires :
                      questionnaires'[id] = questionnaires[id]
      ]_vars

\* a create that found another questionnaire active has completed on its
\* own: the new questionnaire is active and the other one is not
C28_Witness ==
    \E h \in Handlers :
        /\ pc[h] = "done" /\ result[h] = "created" /\ alone[h]
        /\ docActive[h]
        /\ startActive[h] = 1
        /\ Cardinality(DOMAIN questionnaires) >= 2
        /\ ActiveIds(questionnaires) = {target[h]}

\* a create with isActive false has completed next to an active questionnaire
C28_WitnessInactive ==
    \E h \in Handlers :
        /\ pc[h] = "done" /\ result[h] = "created"
        /\ ~docActive[h]
        /\ NumActive = 1
        /\ ~questionnaires[target[h]].isActive

\* C29: calculate-results classifies with the rule of getLevel: the overall
\* level it reports for a percentage p is getLevel(Q, null, p) and the level
\* it reports for category X is getLevel(Q, X, p), "Unknown" in the same
\* cases, and a band that has a category id is never used for the overall
\* percentage.
RefHundredths(rule) ==
    [rule EXCEPT !.minPercentage = @ * 100, !.maxPercentage = @ * 100]

RefGetLevel(questionnaireId, categoryId, percentage) ==
    GetLevelForPercentage({RefHundredths(rule) : rule \in scoringRules},
                          questionnaireId, categoryId, percentage)

C29_CalculateResultsAgreesWithGetLevel ==
    [][(bandResult.op = "none" /\ bandResult'.op = "calculate") =>
          LET request == bandResult'.body IN
          /\ bandResult'.outcome.overall
                \in RefGetLevel(request.questionnaireId, CategoryNull,
                                request.overallPercentage)
          /\ bandResult'.outcome.category
                \in RefGetLevel(request.questionnaireId, request.categoryId,
                                request.percentage)
      ]_vars

\* C30: an update that would give a question the questionnaire and order
\* number of another question is rejected with the DuplicateOrder error of a
\* create and leaves every record unchanged.
C30_CollidingUpdateIsDuplicateOrder ==
    [][(/\ questionLog.op = "none"
        /\ questionLog'.op = "update"
        /\ questionLog'.id \in DOMAIN questions) =>
          LET id == questionLog'.id
              questionnaireId == IF questionLog'.questionnaireId = 0
                                 THEN questions[id].questionnaireId
                                 ELSE questionLog'.questionnaireId
              orderNumber == IF questionLog'.orderNumber = 0
                             THEN questions[id].orderNumber
                             ELSE questionLog'.orderNumber
          IN  (\E other \in DOMAIN questions \ {id} :
                  /\ questions[other].questionnaireId = questionnaireId
                  /\ questions[other].orderNumber = orderNumber)
                => /\ questionLog'.outcome = "DuplicateOrder"
                   /\ questions' = questions
      ]_vars

====
